---- MODULE Spec2Model ----
(***************************************************************************)
(* Model of gitCopy.py: the polling monitor (monitor_repo), the event log  *)
(* (log_event) and the read-back (generate_report), together with the      *)
(* repository they poll, which changes concurrently with the monitor.      *)
(***************************************************************************)
EXTENDS Integers, Sequences, FiniteSets, TLC

\* ---------------------------------------------------------------- bounds
MaxHash == 2        \* commits are named 1..MaxHash
MaxEvents == 2      \* repository changes by developers plus faults (failed
                    \* queries, raised errors, failed log writes) in a run
MaxTicks == 2       \* iterations of the polling loop
MaxLines == 4       \* lines of a log file handed to generate_report
MaxStamp == 2       \* logged_at values in such a file, and filter bounds

\* ------------------------------------------------------ program constants
POLL_INTERVAL_DEFAULT == 5
None == 0           \* Python's None; also "key not in dict" and "no such ref"

Branches == {"main", "feature"}
Hashes == 1..MaxHash
MaybeHash == Hashes \cup {None}

VARIABLES
  repo,             \* the repository: local head of every branch (None: no such branch)
  remote,           \* the remote-tracking head of every branch
  pc,               \* where the monitor thread is
  known_branches,   \* monitor_repo's local known_branches
  branch_commits,   \* monitor_repo's dict branch_commits (None: key absent)
  current_branches, \* monitor_repo's local current_branches
  new_branches,     \* monitor_repo's local new_branches
  todo,             \* branches the running for-loop has still to visit
  log,              \* git_events.json: whether it exists, and its lines
  now,              \* int(time.time())
  emitted,          \* history: every event handed to log_event, in order
  tick,             \* history of the running iteration (see TickInit)
  prev,             \* history of the iteration before it
  left,             \* repository changes and faults the run has still to come
  changed,          \* history: branches created, moved or deleted since the start
  deleted,          \* history: branches deleted since a list query last returned them
  report            \* what the last generate_report printed

vars == <<repo, remote, pc, known_branches, branch_commits, current_branches,
          new_branches, todo, log, now, emitted, tick, prev, left,
          changed, deleted, report>>

monitor_vars == <<pc, known_branches, branch_commits, current_branches,
                  new_branches, todo, log, now, emitted, tick, prev>>

IsPrefix(s, t) == Len(s) <= Len(t) /\ SubSeq(t, 1, Len(s)) = s

\* ------------------------------------------------------ git and its output
\* The outcome of one subprocess.run: the command succeeds, it exits non-zero
\* (CalledProcessError, turned into None), or subprocess.run raises something
\* else (OSError, UnicodeDecodeError), which run_git_command lets through.
Outcomes == {"ok", "error", "raise"}

\* The commit a hash names: %H|%ct|%s of git log.
CommitText(h) == <<h, 100 + h, h>>

\* run_git_command(["branch", ...]): stdout, one branch a line, or None
run_git_branch(r, out) ==
  IF out = "ok" THEN [none |-> FALSE, lines |-> {b \in Branches : r[b] # None}]
                ELSE [none |-> TRUE, lines |-> {}]

\* run_git_command(["log", branch, "-1", ...]): stdout or None; git exits
\* non-zero for a ref that does not exist
run_git_log(r, b, out) ==
  IF out = "ok" /\ r[b] # None THEN [none |-> FALSE, text |-> CommitText(r[b])]
                               ELSE [none |-> TRUE, text |-> <<>>]

\* "if output:" is false for None and for empty output alike
get_current_branches(r, out) ==
  LET output == run_git_branch(r, out)
  IN IF ~output.none /\ output.lines # {} THEN output.lines ELSE {}

\* what get_latest_commit returns for "no commit"
NoCommit == [hash |-> None, timestamp |-> None, message |-> None]

get_latest_commit(r, b, out) ==
  LET output == run_git_log(r, b, out)
  IN IF ~output.none /\ output.text # <<>>
     THEN [hash |-> output.text[1], timestamp |-> output.text[2],
           message |-> output.text[3]]
     ELSE NoCommit

\* ------------------------------------------------------------ the event log
\* json.dumps writes the members in the dict's insertion order: the keys of
\* the literal, then logged_at.
KeyOrder(event) ==
  IF event.event_type = "commit"
  THEN <<"event_type", "branch", "commit_hash", "commit_message",
         "commit_timestamp", "logged_at">>
  ELSE <<"event_type", "branch", "timestamp", "logged_at">>

\* One line of the file: the text of a JSON object, member by member.
dumps(event) ==
  LET keys == KeyOrder(event)
  IN [kind |-> "object",
      members |-> [i \in DOMAIN keys |-> <<keys[i], event[keys[i]]>>]]

\* json.loads of an object's text: the last member of a key wins.
loads(line) ==
  LET ms == line.members
      last(k) == CHOOSE i \in DOMAIN ms :
                   /\ ms[i][1] = k
                   /\ \A j \in DOMAIN ms : ms[j][1] = k => j <= i
  IN [k \in {ms[i][1] : i \in DOMAIN ms} |-> ms[last(k)][2]]

\* event["logged_at"] = int(time.time())
Stamped(event, t) == [k \in DOMAIN event \cup {"logged_at"} |->
                        IF k = "logged_at" THEN t ELSE event[k]]

\* the file opened for writing at its start: the record goes before the
\* lines already there
log_event_at_front(file, event, t, wout) ==
  IF wout = "ok"
  THEN [exists |-> TRUE, lines |-> <<dumps(Stamped(event, t))>> \o file.lines]
  ELSE file

\* the file after log_event(event): open(..., "a") and write succeed, or an
\* exception is caught and logged and the file is left as it was
log_event(file, event, t, wout) ==
  IF wout = "ok"
  THEN [exists |-> TRUE, lines |-> Append(file.lines, dumps(Stamped(event, t)))]
  ELSE file

NoFile == [exists |-> FALSE, lines |-> <<>>]

\* ---------------------------------------------------------- generate_report
\* An Optional argument: {} for None, {v} for the value v.
ValueOf(opt) == CHOOSE v \in opt : TRUE

\* "if x" for an Optional string and an Optional int: None, "" and 0 are false
TruthyStr(opt) == opt # {} /\ ValueOf(opt) # ""
TruthyInt(opt) == opt # {} /\ ValueOf(opt) # 0

\* event.get(key): the value as an Optional
Get(event, key) == IF key \in DOMAIN event THEN {event[key]} ELSE {}

\* lines 189-198: is the event kept
Keep(event, event_type, start_date, end_date) ==
  LET event_logged_at == IF "logged_at" \in DOMAIN event THEN event.logged_at ELSE 0
  IN /\ ~(TruthyStr(event_type) /\ Get(event, "event_type") # event_type)
     /\ ~(TruthyInt(start_date) /\ event_logged_at < ValueOf(start_date))
     /\ ~(TruthyInt(end_date) /\ event_logged_at > ValueOf(end_date))

\* lines 180-206, from line i on: the events list, or raised when a line
\* makes the loop body raise something other than JSONDecodeError
RECURSIVE ReadFrom(_, _, _, _, _, _)
ReadFrom(lines, i, events, event_type, start_date, end_date) ==
  IF i > Len(lines) THEN [raised |-> FALSE, events |-> events]
  ELSE LET line == lines[i]
           rest(evs) == ReadFrom(lines, i + 1, evs, event_type, start_date, end_date)
       IN CASE line.kind = "blank" -> rest(events)       \* if not line: continue
            [] line.kind = "text" -> rest(events)        \* JSONDecodeError: continue
            [] line.kind = "scalar" ->                   \* 42, "x", [1], null:
                 [raised |-> TRUE, events |-> events]    \* no .get, AttributeError
            [] OTHER ->
                 LET event == loads(line)
                 IN IF Keep(event, event_type, start_date, end_date)
                    THEN rest(Append(events, event))
                    ELSE rest(events)

\* nothing was asked for yet
NoReport == [out |-> [printed |-> "nothing", events |-> <<>>],
             event_type |-> {}, start_date |-> {}, end_date |-> {}]

\* What generate_report prints: the message of line 174, the events of line
\* 211, or nothing when line 207 caught an exception. The developer
\* argument changes nothing (line 204: pass).
generate_report(file, event_type, start_date, end_date) ==
  IF ~file.exists THEN [printed |-> "no log file", events |-> <<>>]
  ELSE LET r == ReadFrom(file.lines, 1, <<>>, event_type, start_date, end_date)
       IN IF r.raised THEN [printed |-> "error", events |-> <<>>]
          ELSE [printed |-> "events", events |-> r.events]

\* the event of a new branch built with another type
BranchCreationMistyped(b, t) ==
  [event_type |-> "push", branch |-> b, timestamp |-> t]

\* lines 107-111
BranchCreation(b, t) ==
  [event_type |-> "branch_creation", branch |-> b, timestamp |-> t]

\* the event built without the hash that was read
CommitEventNoHash(b, commit) ==
  [event_type |-> "commit", branch |-> b, commit_hash |-> None,
   commit_message |-> commit.message, commit_timestamp |-> commit.timestamp]

\* lines 133-139
CommitEvent(b, commit) ==
  [event_type |-> "commit", branch |-> b, commit_hash |-> commit.hash,
   commit_message |-> commit.message, commit_timestamp |-> commit.timestamp]

\* ------------------------------------------------- history of one iteration
NoHeads == [b \in Branches |-> None]

\* the key set of a dict from branches to hashes
Keys(store) == {b \in Branches : store[b] # None}

TickInit(lg, em, stored, known, r, rem) ==
  [log0 |-> Len(lg.lines),          \* length of the file when the iteration began
   emit0 |-> Len(em),          \* events handed to log_event before it
   stored0 |-> stored,         \* branch_commits when it began
   known0 |-> known,           \* known_branches when it began
   listing |-> {},             \* what get_current_branches returned (line 102)
   fresh |-> {},               \* new_branches (line 105)
   recreated |-> {},           \* listed branches that were deleted since a
                               \* list query last returned them
   list_failed |-> FALSE,      \* the list query failed although branches exist
   divergent |-> {b \in Branches : r[b] # None /\ rem[b] # None /\ rem[b] # r[b]},
   got |-> NoHeads,            \* what get_latest_commit returned at line 123
   head |-> NoHeads,           \* the branch's head when line 123 asked for it
   status |-> "running"]       \* running, completed, aborted

NoTick == [TickInit(NoFile, <<>>, NoHeads, {}, NoHeads, NoHeads)
             EXCEPT !.status = "none"]

\* ------------------------------------------------------------ initial state
\* Every branch is there or not when monitoring starts. A hash is only ever
\* compared with a hash of the same branch, and only for equality, so which
\* commit a branch starts at makes no difference: it starts at commit 1.
Init ==
  /\ repo \in [Branches -> {None, 1}]
  /\ remote = repo
  /\ pc = "seed_list"
  /\ known_branches = {}
  /\ branch_commits = NoHeads
  /\ current_branches = {}
  /\ new_branches = {}
  /\ todo = {}
  /\ log = NoFile
  /\ report = NoReport
  /\ now = 1
  /\ emitted = <<>>
  /\ tick = NoTick
  /\ prev = NoTick
  /\ left = MaxEvents
  /\ changed = {}
  /\ deleted = {}

\* A change of the repository matters only while the monitor has queries
\* ahead of it; one made during the sleep is the same as one made just
\* before the next poll.
Observing == pc \in {"seed_list", "seed_commits", "poll", "new_loop", "commit_loop"}

\* ------------------------------------------ the repository, changed by others
NewCommit(b, h) ==
  /\ Observing /\ left > 0
  /\ repo[b] # None /\ h # repo[b]
  /\ repo' = [repo EXCEPT ![b] = h]
  /\ changed' = changed \cup {b}
  /\ left' = left - 1
  /\ UNCHANGED <<remote, deleted, monitor_vars, report>>

CreateBranch(b, h) ==
  /\ Observing /\ left > 0
  /\ repo[b] = None
  /\ repo' = [repo EXCEPT ![b] = h]
  /\ changed' = changed \cup {b}
  /\ left' = left - 1
  /\ UNCHANGED <<remote, deleted, monitor_vars, report>>

DeleteBranch(b) ==
  /\ Observing /\ left > 0
  /\ repo[b] # None
  /\ repo' = [repo EXCEPT ![b] = None]
  /\ changed' = changed \cup {b}
  /\ deleted' = deleted \cup {b}
  /\ left' = left - 1
  /\ UNCHANGED <<remote, monitor_vars, report>>

Push(b) ==
  /\ Observing /\ left > 0
  /\ repo[b] # None /\ remote[b] # repo[b]
  /\ remote' = [remote EXCEPT ![b] = repo[b]]
  /\ left' = left - 1
  /\ UNCHANGED <<repo, changed, deleted, monitor_vars, report>>

\* one fault costs one unit of the budget
Cost(out) == IF out = "ok" THEN 0 ELSE 1

\* ------------------------------------------------------------- monitor_repo
\* line 91: known_branches = set(get_current_branches()); line 92
SeedList(out) ==
  /\ pc = "seed_list"
  /\ Cost(out) <= left
  /\ left' = left - Cost(out)
  /\ IF out = "raise"
     THEN /\ pc' = "dead"      \* nothing catches it: the thread ends
          /\ UNCHANGED <<known_branches, todo, deleted>>
     ELSE /\ known_branches' = get_current_branches(repo, out)
          /\ deleted' = deleted \ known_branches'
          /\ todo' = known_branches'
          /\ pc' = IF known_branches' = {} THEN "poll" ELSE "seed_commits"
  /\ branch_commits' = NoHeads
  /\ UNCHANGED <<repo, remote, current_branches, new_branches, log, now,
                 emitted, tick, prev, changed, report>>

\* lines 95-98, one iteration
SeedCommit(b, out) ==
  /\ pc = "seed_commits" /\ b \in todo
  /\ Cost(out) <= left
  /\ left' = left - Cost(out)
  /\ IF out = "raise"
     THEN /\ pc' = "dead"
          /\ UNCHANGED <<branch_commits, todo>>
     ELSE LET commit == get_latest_commit(repo, b, out)
          IN /\ branch_commits' = IF commit # NoCommit
                                  THEN [branch_commits EXCEPT ![b] = commit.hash]
                                  ELSE branch_commits
             /\ todo' = todo \ {b}
             /\ pc' = IF todo' = {} THEN "poll" ELSE "seed_commits"
  /\ UNCHANGED <<repo, remote, known_branches, current_branches, new_branches,
                 log, now, emitted, tick, prev, changed, deleted, report>>

\* the subtraction of line 105 gone: every listed branch is taken for new
NewBranchesAll(cur, known) == cur

\* line 105: new_branches = current_branches - known_branches
NewBranchesOf(cur, known) == cur \ known

\* lines 102-105, and line 119 with the head of the second loop when there
\* is no new branch
Poll(out) ==
  /\ pc = "poll"
  /\ Cost(out) <= left
  /\ left' = left - Cost(out)
  /\ prev' = tick
  /\ LET t0 == TickInit(log, emitted, branch_commits, known_branches, repo, remote)
         cur == get_current_branches(repo, out)
         new == NewBranchesOf(cur, known_branches)
     IN IF out = "raise"
        THEN /\ tick' = [t0 EXCEPT !.status = "aborted"]
             /\ pc' = "sleep"
             /\ UNCHANGED <<known_branches, current_branches, new_branches, todo,
                            deleted>>
        ELSE /\ current_branches' = cur
             /\ new_branches' = new
             /\ deleted' = deleted \ cur
             /\ IF new # {}
                THEN /\ pc' = "new_loop"
                     /\ todo' = new
                     /\ tick' = [t0 EXCEPT !.listing = cur, !.fresh = new,
                                   !.recreated = cur \cap deleted]
                     /\ UNCHANGED known_branches
                ELSE /\ known_branches' = cur
                     /\ todo' = cur
                     /\ pc' = IF cur = {} THEN "sleep" ELSE "commit_loop"
                     /\ tick' = [t0 EXCEPT !.listing = cur, !.fresh = new,
                                   !.recreated = cur \cap deleted,
                                   !.list_failed = (out = "error" /\ Keys(repo) # {}),
                                   !.status = IF cur = {} THEN "completed"
                                              ELSE "running"]
  /\ UNCHANGED <<repo, remote, branch_commits, log, now, emitted, changed, report>>

\* lines 106-117, one iteration, and line 119 after the last one
NewBranch(b, wout, out) ==
  /\ pc = "new_loop" /\ b \in todo
  /\ Cost(wout) + Cost(out) <= left
  /\ wout # "raise"
  /\ left' = left - (Cost(wout) + Cost(out))
  /\ emitted' = Append(emitted, Stamped(BranchCreation(b, now), now))
  /\ log' = log_event(log, BranchCreation(b, now), now, wout)
  /\ IF out = "raise"
     THEN /\ tick' = [tick EXCEPT !.status = "aborted"]
          /\ pc' = "sleep"
          /\ UNCHANGED <<branch_commits, known_branches, todo>>
     ELSE LET commit == get_latest_commit(repo, b, out)
          IN /\ branch_commits' = IF commit # NoCommit
                                  THEN [branch_commits EXCEPT ![b] = commit.hash]
                                  ELSE branch_commits
             /\ IF todo = {b}
                THEN /\ known_branches' = current_branches
                     /\ todo' = current_branches
                     /\ pc' = "commit_loop"
                ELSE /\ todo' = todo \ {b}
                     /\ pc' = "new_loop"
                     /\ UNCHANGED known_branches
             /\ UNCHANGED tick
  /\ UNCHANGED <<repo, remote, current_branches, new_branches, now, prev, changed, deleted,
                 report>>

\* the comparison of line 132 gone: every head read is reported
HeadChangedAlways(commit, stored) == TRUE

\* line 132: if commit["hash"] != branch_commits[branch]
HeadChanged(commit, stored) == commit.hash # stored

\* the dict replaced by one holding the branch alone
StoreHeadAlone(store, b, commit) ==
  [x \in Branches |-> IF x = b THEN commit.hash ELSE None]

\* the assignments of lines 128 and 142 left out
StoreHeadForgotten(store, b, commit) == store

\* lines 128 and 142: branch_commits[branch] = commit["hash"]
StoreHead(store, b, commit) == [store EXCEPT ![b] = commit.hash]

\* the test of line 124 gone: an absent commit is handled like any other
IsNoneNever(commit) == FALSE

\* line 124: if commit is None
IsNone(commit) == commit = NoCommit

\* lines 122-142, one iteration
CheckCommit(b, out, wout) ==
  /\ pc = "commit_loop" /\ b \in todo
  /\ wout # "raise"
  /\ LET commit == get_latest_commit(repo, b, out)
         differs == /\ out # "raise" /\ ~IsNone(commit)
                    /\ branch_commits[b] # None
                    /\ HeadChanged(commit, branch_commits[b])
         done == [tick EXCEPT !.got[b] = commit.hash,
                              !.head[b] = repo[b],
                              !.status = IF todo = {b} THEN "completed" ELSE "running"]
     IN /\ (~differs => wout = "ok")
        /\ Cost(out) + Cost(wout) <= left
        /\ left' = left - (Cost(out) + Cost(wout))
        /\ IF out = "raise"
           THEN /\ tick' = [tick EXCEPT !.status = "aborted"]
                /\ pc' = "sleep"
                /\ UNCHANGED <<branch_commits, todo, log, emitted>>
           ELSE /\ tick' = done
                /\ todo' = todo \ {b}
                /\ pc' = IF todo' = {} THEN "sleep" ELSE "commit_loop"
                /\ IF IsNone(commit)
                   THEN UNCHANGED <<branch_commits, log, emitted>>
                   ELSE /\ branch_commits' = StoreHead(branch_commits, b, commit)
                        /\ IF differs
                           THEN /\ emitted' = Append(emitted,
                                        Stamped(CommitEvent(b, commit), now))
                                /\ log' = log_event(log, CommitEvent(b, commit), now, wout)
                           ELSE UNCHANGED <<log, emitted>>
  /\ UNCHANGED <<repo, remote, known_branches, current_branches, new_branches,
                 now, prev, changed, deleted,
                 report>>

\* line 147: await asyncio.sleep(poll_interval)
Sleep ==
  /\ pc = "sleep"
  /\ now < 1 + (MaxTicks - 1) * POLL_INTERVAL_DEFAULT
  /\ now' = now + POLL_INTERVAL_DEFAULT
  /\ pc' = "poll"
  /\ UNCHANGED <<repo, remote, known_branches, branch_commits, current_branches,
                 new_branches, todo, log, emitted, tick, prev, left, changed,
                 deleted, report>>

\* main, lines 267-271: Ctrl+C ends the main thread, and with it the process
\* and its daemon thread, wherever that thread is; what the process held in
\* memory is gone, the file and the repository stay
Cancel ==
  /\ pc # "stopped"
  /\ pc' = "stopped"
  /\ known_branches' = {}
  /\ branch_commits' = NoHeads
  /\ current_branches' = {}
  /\ new_branches' = {}
  /\ todo' = {}
  /\ tick' = NoTick
  /\ prev' = NoTick
  /\ deleted' = {}
  /\ UNCHANGED <<repo, remote, log, now, emitted, left, changed, report>>

Next ==
  \/ \E out \in Outcomes : SeedList(out)
  \/ \E b \in Branches, out \in Outcomes : SeedCommit(b, out)
  \/ \E out \in Outcomes : Poll(out)
  \/ \E b \in Branches, wout \in Outcomes, out \in Outcomes : NewBranch(b, wout, out)
  \/ \E b \in Branches, out \in Outcomes, wout \in Outcomes : CheckCommit(b, out, wout)
  \/ Sleep
  \/ Cancel
  \/ \E b \in Branches, h \in Hashes : NewCommit(b, h)
  \/ \E b \in Branches, h \in Hashes : CreateBranch(b, h)
  \/ \E b \in Branches : DeleteBranch(b)
  \/ \E b \in Branches : Push(b)

Spec == Init /\ [][Next]_vars

\* The same program when every git command and every log write succeeds:
\* only the repository moves under the monitor.
NextReliable ==
  \/ SeedList("ok")
  \/ \E b \in Branches : SeedCommit(b, "ok")
  \/ Poll("ok")
  \/ \E b \in Branches : NewBranch(b, "ok", "ok")
  \/ \E b \in Branches : CheckCommit(b, "ok", "ok")
  \/ Sleep
  \/ Cancel
  \/ \E b \in Branches, h \in Hashes : NewCommit(b, h)
  \/ \E b \in Branches, h \in Hashes : CreateBranch(b, h)
  \/ \E b \in Branches : DeleteBranch(b)
  \/ \E b \in Branches : Push(b)

SpecReliable == Init /\ [][NextReliable]_vars

\* ------------------------------------------- the monitor left running
\* The loop has no last iteration. Past MaxTicks iterations the clock of the
\* model stands at its last reading, and the loop goes on.
SleepOn ==
  /\ pc = "sleep"
  /\ now >= 1 + (MaxTicks - 1) * POLL_INTERVAL_DEFAULT
  /\ pc' = "poll"
  /\ UNCHANGED <<repo, remote, known_branches, branch_commits, current_branches,
                 new_branches, todo, log, now, emitted, tick, prev, left, changed,
                 deleted, report>>

\* a git command succeeds or exits non-zero: the transient failures
Transient == {"ok", "error"}

\* a step of the monitor thread when nobody interrupts it, queries fail only
\* by a non-zero exit and every write to the file succeeds
MonitorStep ==
  \/ \E out \in Transient : SeedList(out)
  \/ \E b \in Branches, out \in Transient : SeedCommit(b, out)
  \/ \E out \in Transient : Poll(out)
  \/ \E b \in Branches, out \in Transient : NewBranch(b, "ok", out)
  \/ \E b \in Branches, out \in Transient : CheckCommit(b, out, "ok")
  \/ Sleep
  \/ SleepOn

NextFair ==
  \/ MonitorStep
  \/ \E b \in Branches, h \in Hashes : NewCommit(b, h)
  \/ \E b \in Branches, h \in Hashes : CreateBranch(b, h)
  \/ \E b \in Branches : DeleteBranch(b)
  \/ \E b \in Branches : Push(b)

\* The thread is scheduled and asyncio.sleep returns: the monitor does not
\* stop of itself. Failures are finitely many (MaxEvents), so the queries
\* succeed in the end.
SpecFair == Init /\ [][NextFair]_vars /\ WF_vars(MonitorStep)

\* ------------------------------------------- one branch, a longer history
\* A repository whose only branch is main, followed through two more changes
\* or failures than MaxEvents and through as many iterations as it takes.
InitOneBranch ==
  /\ repo = [b \in Branches |-> IF b = "main" THEN 1 ELSE None]
  /\ remote = repo
  /\ pc = "seed_list"
  /\ known_branches = {}
  /\ branch_commits = NoHeads
  /\ current_branches = {}
  /\ new_branches = {}
  /\ todo = {}
  /\ log = NoFile
  /\ report = NoReport
  /\ now = 1
  /\ emitted = <<>>
  /\ tick = NoTick
  /\ prev = NoTick
  /\ left = MaxEvents + 2
  /\ changed = {}
  /\ deleted = {}

NextOneBranch ==
  \/ \E out \in Outcomes : SeedList(out)
  \/ \E out \in Outcomes : SeedCommit("main", out)
  \/ \E out \in Outcomes : Poll(out)
  \/ \E wout \in Outcomes, out \in Outcomes : NewBranch("main", wout, out)
  \/ \E out \in Outcomes, wout \in Outcomes : CheckCommit("main", out, wout)
  \/ Sleep
  \/ SleepOn
  \/ \E h \in Hashes : NewCommit("main", h)
  \/ \E h \in Hashes : CreateBranch("main", h)
  \/ DeleteBranch("main")

SpecOneBranch == InitOneBranch /\ [][NextOneBranch]_vars

\* ------------------------------------------------- the report command
\* The report command runs in a process of its own, over whatever file the
\* monitoring runs before it left behind.
InitReport ==
  /\ repo = NoHeads
  /\ remote = NoHeads
  /\ pc = "report"
  /\ known_branches = {}
  /\ branch_commits = NoHeads
  /\ current_branches = {}
  /\ new_branches = {}
  /\ todo = {}
  /\ log = NoFile
  /\ report = NoReport
  /\ now = 1
  /\ emitted = <<>>
  /\ tick = NoTick
  /\ prev = NoTick
  /\ left = 0
  /\ changed = {}
  /\ deleted = {}

file_vars == <<repo, remote, pc, known_branches, branch_commits, current_branches,
               new_branches, todo, now, emitted, tick, prev, left, changed, deleted>>

\* a push event, as the design describes it; the monitor builds none
PushDetected(b, t) ==
  [event_type |-> "push", branch |-> b, timestamp |-> t]

\* the events an earlier monitoring run may have handed to log_event at time
\* t, and the push event of the design
LoggedEvents(t) ==
  {BranchCreation("main", t),
   CommitEvent("main", get_latest_commit([b \in Branches |-> 1], "main", "ok")),
   PushDetected("main", t)}

\* an earlier monitoring run appended a record at time t (lines 77-80)
WriteRecord(event, t) ==
  /\ pc = "report" /\ report = NoReport
  /\ Len(log.lines) < MaxLines
  /\ log' = log_event(log, event, t, "ok")
  /\ UNCHANGED <<file_vars, report>>

\* the kinds of line generate_report does not take for a record
Malformed == {"blank", "text", "scalar"}

InsertAt(lines, i, line) ==
  SubSeq(lines, 1, i - 1) \o <<line>> \o SubSeq(lines, i, Len(lines))

\* something other than the monitor put a line into the file: an empty line,
\* text that is not JSON, or JSON that is no object (42, "x", [1], null)
Damage(i, kind) ==
  /\ pc = "report" /\ report = NoReport
  /\ Len(log.lines) < MaxLines
  /\ i \in 1..(Len(log.lines) + 1)
  /\ log' = [exists |-> TRUE, lines |-> InsertAt(log.lines, i, [kind |-> kind])]
  /\ UNCHANGED <<file_vars, report>>

\* main, lines 273-279: generate_report with the filters of the command line
Report(event_type, start_date, end_date) ==
  /\ pc = "report" /\ report = NoReport
  /\ report' = [out |-> generate_report(log, event_type, start_date, end_date),
                event_type |-> event_type, start_date |-> start_date,
                end_date |-> end_date]
  /\ UNCHANGED <<file_vars, log>>

Optional(S) == {{}} \cup {{v} : v \in S}

\* values of --event_type: argparse takes any string, the empty one included
EventTypeArgs == {"", "branch_creation", "commit", "push"}

NextReport ==
  \/ \E t \in 1..MaxStamp : \E event \in LoggedEvents(t) : WriteRecord(event, t)
  \/ \E i \in 1..MaxLines, kind \in Malformed : Damage(i, kind)
  \/ \E event_type \in Optional(EventTypeArgs),
        start_date \in Optional(0..MaxStamp),
        end_date \in Optional(0..MaxStamp) :
       Report(event_type, start_date, end_date)

SpecReport == InitReport /\ [][NextReport]_vars

\* ------------------------------------------------- what one iteration wrote
\* the records the running (or last) iteration appended to the file
TickRecords ==
  [i \in 1..(Len(log.lines) - tick.log0) |-> loads(log.lines[tick.log0 + i])]

\* the events it handed to log_event
TickEvents ==
  [i \in 1..(Len(emitted) - tick.emit0) |-> emitted[tick.emit0 + i]]

Matching(events, type, b) ==
  {i \in DOMAIN events : events[i].event_type = type /\ events[i].branch = b}

Appended(type, b) == Cardinality(Matching(TickRecords, type, b))
Handed(type, b) == Cardinality(Matching(TickEvents, type, b))

Completed == tick.status = "completed"

\* ------------------------------------------------------------------- claims

\* C1 (as claimed): when an iteration has completed, every branch that was
\* new in its listing has exactly one branch_creation record and no commit
\* record among the records the iteration appended.
C1_NewBranchOneCreationNoCommit ==
  Completed =>
    \A b \in tick.fresh :
      Appended("branch_creation", b) = 1 /\ Appended("commit", b) = 0

\* C2 (as claimed): when two consecutive iterations have completed, for every
\* branch in both listings (and still there when each asked for its head) the
\* later one appended a commit record iff the branch's head at the later one
\* differs from its head at the earlier one, and the record carries the
\* later head.
C2_CommitIffHeadMoved ==
  (Completed /\ prev.status = "completed") =>
    \A b \in tick.listing \cap prev.listing :
      (tick.head[b] # None /\ prev.head[b] # None) =>
      /\ Appended("commit", b) >= 1 <=> tick.head[b] # prev.head[b]
      /\ \A i \in Matching(TickRecords, "commit", b) :
           TickRecords[i].commit_hash = tick.head[b]

\* C2 (amended): when an iteration has completed, for every branch in its
\* listing that was in known_branches when it began, it handed a commit event
\* to log_event iff its head query returned a hash, the StateStore held a hash
\* for the branch when the iteration began and the two differ; there is at
\* most one such event, it carries the hash the query returned, and the file
\* holds it unless the write failed.
C2_CommitIffDiffersFromStore ==
  Completed =>
    \A b \in tick.listing \cap tick.known0 :
      /\ Handed("commit", b) = IF /\ tick.got[b] # None
                                  /\ tick.stored0[b] # None
                                  /\ tick.got[b] # tick.stored0[b]
                               THEN 1 ELSE 0
      /\ \A i \in Matching(TickEvents, "commit", b) :
           TickEvents[i].commit_hash = tick.got[b]
      /\ Appended("commit", b) <= Handed("commit", b)
      /\ \A i \in Matching(TickRecords, "commit", b) :
           TickRecords[i].commit_hash = tick.got[b]

\* C2 witness: a completed iteration that appended a commit record for a
\* branch it already knew.
C2_Witness ==
  /\ Completed
  /\ \E b \in tick.listing \cap tick.known0 :
       /\ Appended("commit", b) = 1
       /\ tick.stored0[b] # None
       /\ tick.got[b] # tick.stored0[b]

\* C3 (as claimed): when an iteration has completed, it appended a push
\* record for a branch iff the branch's remote head differed from its local
\* head when the iteration ran.
C3_PushIffDivergent ==
  Completed =>
    \A b \in Branches : Appended("push", b) >= 1 <=> b \in tick.divergent

\* ------------------------------------------------------------ the whole log
\* the records of the file, read back line by line
Records == [i \in DOMAIN log.lines |-> loads(log.lines[i])]

\* what generate_report prints when called with no filter
ReadBack == generate_report(log, {}, {}, {})

\* the lines of the file that are records, read back in order
IsRecord(line) == line.kind = "object"
ValidRecords ==
  LET F[i \in 0..Len(log.lines)] ==
        IF i = 0 THEN <<>>
        ELSE IF IsRecord(log.lines[i]) THEN Append(F[i - 1], loads(log.lines[i]))
             ELSE F[i - 1]
  IN F[Len(log.lines)]

\* C4 (as claimed): a branch that exists and was never created, moved or
\* deleted since the monitor started has no branch_creation record and no
\* commit record for its head in the log; with an unchanged repository the
\* log is empty.
C4_SeedingIsSilent ==
  /\ \A b \in Branches \ changed :
       repo[b] # None =>
         \A i \in DOMAIN Records :
           Records[i].branch = b =>
             /\ Records[i].event_type # "branch_creation"
             /\ ~(Records[i].event_type = "commit" /\ Records[i].commit_hash = repo[b])
  /\ changed = {} => log.lines = <<>>

\* C5 (as claimed): every event the monitor detected is in the log exactly
\* once: the log holds the detected events, one record each, and a branch that
\* was there all along did not appear more than once.
C5_PersistedExactlyOnce ==
  /\ Records = emitted
  /\ \A b \in Branches \ changed :
       Cardinality(Matching(emitted, "branch_creation", b)) <= 1

\* C6 (as claimed): every step leaves the lines already in the file as they
\* are and only adds lines after them, and in every state the log read back
\* with no filter is the sequence of all events emitted so far, in order.
C6_AppendOnlyAndComplete ==
  /\ [][IsPrefix(log.lines, log'.lines)]_vars
  /\ [](ReadBack.events = emitted)

\* The half of C6 that holds: no step edits, removes or reorders a line.
AppendOnly == [][IsPrefix(log.lines, log'.lines)]_vars

\* C7 (as claimed): when an iteration has completed, branch_commits maps
\* every branch of its listing (that was still there when the iteration asked
\* for its head) to that head.
C7_StoreHoldsCurrentHead ==
  Completed =>
    \A b \in tick.listing :
      tick.head[b] # None => branch_commits[b] = tick.head[b]

\* C7 (amended): when an iteration has completed, branch_commits maps every
\* branch of its listing whose head query (line 123) returned a commit to the
\* hash that query returned, whether or not that hash is new.
C7_StoreHoldsHeadRead ==
  Completed =>
    \A b \in tick.listing :
      tick.got[b] # None => branch_commits[b] = tick.got[b]

\* C7 witness: a completed iteration that read a head different from the one
\* stored before, and one that read the head already stored.
C7_Witness ==
  /\ Completed
  /\ \E b \in tick.listing :
       /\ tick.got[b] # None /\ tick.stored0[b] # None
       /\ tick.got[b] # tick.stored0[b]
       /\ branch_commits[b] = tick.got[b]

\* C8 (as claimed): no failure after monitoring has started ends the
\* monitor thread.
C8_NeverFatal == pc # "dead"

\* the loop of monitor_repo is alive
Running == pc \notin {"stopped", "dead"}

\* C9 (as claimed): the scheduler leaves Running only by cancellation, never
\* comes back, and once stopped appends nothing.
C9_StoppedOnlyByCancel ==
  [][/\ (Running /\ ~Running') => pc' = "stopped"
     /\ ~Running => ~Running'
     /\ pc = "stopped" => (pc' = "stopped" /\ log' = log)]_vars

\* a report was printed, and no filter was given
ReportedUnfiltered ==
  /\ report # NoReport
  /\ report.event_type = {} /\ report.start_date = {} /\ report.end_date = {}

\* the file is valid records with one malformed line (text that is not JSON,
\* or JSON that is no object) between two of them
OneMalformedBetweenValid ==
  \E i \in 2..(Len(log.lines) - 1) :
    /\ log.lines[i].kind \in {"text", "scalar"}
    /\ \A j \in DOMAIN log.lines : j # i => IsRecord(log.lines[j])

\* C10 (as claimed): a report with no filter over a file of valid records
\* with one malformed line between two of them prints every valid record, in
\* the order of the file.
C10_MalformedLineSkipped ==
  (ReportedUnfiltered /\ OneMalformedBetweenValid) =>
    /\ report.out.printed = "events"
    /\ report.out.events = ValidRecords

\* ------------------------------------------------------ the report's filters
\* generate_report ran over a log file that exists
Reported == report # NoReport /\ log.exists

\* the file holds records only: every line is the text of a JSON object
OnlyRecords == \A i \in DOMAIN log.lines : IsRecord(log.lines[i])

\* C11 (as claimed): over a log of records, a report with an event_type
\* filter value (and no date bound) prints exactly the records of the log
\* whose event_type equals that value, all of them and only them, in the
\* order of the log.
C11_TypeFilterExact ==
  (Reported /\ OnlyRecords /\ report.event_type # {}
            /\ report.start_date = {} /\ report.end_date = {}) =>
    /\ report.out.printed = "events"
    /\ report.out.events =
         SelectSeq(ValidRecords,
                   LAMBDA e : Get(e, "event_type") = report.event_type)

\* The part of C11 that holds: over a log of records, a non-empty
\* filter value selects exactly the records of that type, in order.
TypeFilterOnRecords ==
  (Reported /\ OnlyRecords /\ TruthyStr(report.event_type)
            /\ report.start_date = {} /\ report.end_date = {}) =>
    /\ report.out.printed = "events"
    /\ report.out.events =
         SelectSeq(ValidRecords,
                   LAMBDA e : Get(e, "event_type") = report.event_type)

\* the design's scenario: one branch_creation, two commit and one push record,
\* filtered by commit, give the two commit records
TypeFilterScenario ==
  /\ Reported /\ OnlyRecords /\ report.event_type = {"commit"}
  /\ report.start_date = {} /\ report.end_date = {}
  /\ Len(ValidRecords) = 4
  /\ Cardinality(Matching(ValidRecords, "branch_creation", "main")) = 1
  /\ Cardinality(Matching(ValidRecords, "commit", "main")) = 2
  /\ Cardinality(Matching(ValidRecords, "push", "main")) = 1
  /\ Len(report.out.events) = 2

\* logged_at lies in the closed interval of the bounds that were supplied
InRange(e, start_date, end_date) ==
  /\ start_date # {} => ValueOf(start_date) <= e.logged_at
  /\ end_date # {} => e.logged_at <= ValueOf(end_date)

\* C12 (as claimed): over a log of records, a report with date bounds (0
\* included, and no event_type filter) prints exactly the records whose
\* logged_at satisfies start_date <= logged_at <= end_date, a bound not
\* supplied imposing no restriction.
C12_DateBoundsExact ==
  (Reported /\ OnlyRecords /\ report.event_type = {}) =>
    /\ report.out.printed = "events"
    /\ report.out.events =
         SelectSeq(ValidRecords,
                   LAMBDA e : InRange(e, report.start_date, report.end_date))

\* The part of C12 that holds: over a log of records, bounds other
\* than 0 select exactly the records in the closed interval.
DateBoundsOnRecords ==
  (Reported /\ OnlyRecords /\ report.event_type = {}
            /\ report.start_date # {0} /\ report.end_date # {0}) =>
    /\ report.out.printed = "events"
    /\ report.out.events =
         SelectSeq(ValidRecords,
                   LAMBDA e : InRange(e, report.start_date, report.end_date))

\* ------------------------------------------------------------ later claims
\* an iteration of the loop has begun and the process is still there
InTick == tick.status # "none"

\* C13: among the records one iteration appended, every branch_creation
\* record comes before every commit record: no iteration appends a
\* branch_creation record after it has appended a commit record.
C13_CreationsBeforeCommits ==
  (InTick /\ Len(log.lines) > tick.log0) =>
    LET records == TickRecords
    IN \A i, j \in DOMAIN records :
         (records[i].event_type = "commit"
            /\ records[j].event_type = "branch_creation") => j < i

\* C13 witness: an iteration that appended a branch_creation record and,
\* after it, a commit record.
C13_Witness ==
  /\ InTick
  /\ \E i, j \in DOMAIN TickRecords :
       /\ i < j
       /\ TickRecords[i].event_type = "branch_creation"
       /\ TickRecords[j].event_type = "commit"

\* the branches the running iteration appended a branch_creation record
\* for, and those it handed a branch_creation event to log_event for
CreatedAppended == {b \in Branches : Appended("branch_creation", b) >= 1}
CreatedHanded == {b \in Branches : Handed("branch_creation", b) >= 1}

\* C14 (as claimed): when an iteration has completed, the set of branches it
\* appended a branch_creation record for is its listing minus the key set
\* branch_commits had when it began.
C14_NewIsListingMinusStoreKeys ==
  Completed => CreatedAppended = tick.listing \ Keys(tick.stored0)

\* C14 (amended): when an iteration has completed, the set of branches it
\* handed a branch_creation event to log_event for is its listing minus
\* known_branches as it was when the iteration began, one event a branch,
\* and the file holds the record unless the write failed.
C14_NewIsListingMinusKnown ==
  Completed =>
    /\ CreatedHanded = tick.listing \ tick.known0
    /\ \A b \in Branches :
         /\ Handed("branch_creation", b) <= 1
         /\ Appended("branch_creation", b) <= Handed("branch_creation", b)

\* C14 witness: a completed iteration appended a branch_creation record for
\* a branch that had an entry in branch_commits (deleted, then back), or
\* appended none for a listed branch that had no entry (listed before with no
\* readable head).
C14_Witness ==
  /\ Completed
  /\ \/ \E b \in tick.listing :
          /\ Appended("branch_creation", b) = 1
          /\ b \in Keys(tick.stored0) /\ b \notin tick.known0
     \/ \E b \in tick.listing :
          /\ Appended("branch_creation", b) = 0
          /\ b \notin Keys(tick.stored0) /\ b \in tick.known0

\* C15 (as claimed): an iteration whose list query failed although branches
\* exist appends no record; and the iteration after it appends no
\* branch_creation record for a branch that was known before the failure and
\* was not deleted since, and appends a commit record for such a branch when
\* the head it reads differs from the hash stored before the failure.
C15_ListFailureIsNoData ==
  /\ tick.list_failed => TickRecords = <<>>
  /\ (Completed /\ prev.list_failed) =>
       \A b \in prev.known0 \ tick.recreated :
         /\ Appended("branch_creation", b) = 0
         /\ (/\ b \in tick.listing
             /\ tick.got[b] # None /\ prev.stored0[b] # None
             /\ tick.got[b] # prev.stored0[b]) => Appended("commit", b) = 1

\* C16: when an iteration has completed and its head query for a branch it
\* already knew returned None, it handed no commit event to log_event and
\* appended no commit record for the branch, and the branch's entry in
\* branch_commits is as it was when the iteration began, present or absent.
C16_AbsentHeadLeavesStore ==
  Completed =>
    \A b \in tick.listing \cap tick.known0 :
      tick.got[b] = None =>
        /\ Handed("commit", b) = 0
        /\ Appended("commit", b) = 0
        /\ branch_commits[b] = tick.stored0[b]

\* C16 witness: a completed iteration whose head query for a known branch
\* with a stored hash returned None, the entry still there.
C16_Witness ==
  /\ Completed
  /\ \E b \in tick.listing \cap tick.known0 :
       /\ tick.got[b] = None
       /\ tick.stored0[b] # None
       /\ branch_commits[b] = tick.stored0[b]

\* file lengths at which a record can still be missing: a change or a
\* failure brings at most two records
MaxLog == 2 * MaxEvents

\* the monitor knows the branch, holds a hash for it, the branch's head is
\* another hash h2, and the file has n lines
Pending(b, h2, n) ==
  /\ b \in known_branches
  /\ branch_commits[b] \notin {None, h2}
  /\ repo[b] = h2
  /\ Len(log.lines) = n

\* a commit record for the branch with that hash was appended after line n
RecordedAfter(b, h2, n) ==
  \E i \in (n + 1)..Len(log.lines) :
    /\ Records[i].event_type = "commit"
    /\ Records[i].branch = b
    /\ Records[i].commit_hash = h2

\* C17 (as claimed): when the head of a known branch has moved from the
\* stored hash to h2, then, unless the head moves again or the branch is
\* deleted, a commit record for the branch with commit_hash h2 is appended
\* in the end, whatever list or head queries fail on the way.
C17_DeferredDetectionHappens ==
  \A b \in Branches, h2 \in Hashes, n \in 0..MaxLog :
    Pending(b, h2, n) ~> (RecordedAfter(b, h2, n) \/ repo[b] # h2)

\* The part of C17 that holds: the same, as long as no listing comes back
\* without the branch (a failed head query only defers the record).
DeferredByHeadQueries ==
  \A b \in Branches, h2 \in Hashes, n \in 0..MaxLog :
    Pending(b, h2, n) ~>
      (RecordedAfter(b, h2, n) \/ repo[b] # h2 \/ b \notin known_branches)

\* the records of the running iteration that name the branch
RecordsOf(b) == {i \in DOMAIN TickRecords : TickRecords[i].branch = b}

\* branches the last listing before this one held, deleted since and listed
\* again now: no iteration saw them missing
Recreated == tick.recreated \cap tick.known0 \cap tick.listing

\* C18 (as claimed): a completed iteration appended no record for a branch
\* that was listed before and is missing from its listing; and for a known
\* branch that was deleted and recreated since the listing before, its head
\* now another than the stored one, it appended one commit record with the
\* new head's hash and no branch_creation record.
C18_DeletionSilentRecreationIsCommit ==
  Completed =>
    /\ \A b \in tick.known0 \ tick.listing : RecordsOf(b) = {}
    /\ \A b \in Recreated :
         (tick.stored0[b] # None /\ tick.head[b] \notin {None, tick.stored0[b]}) =>
           /\ Appended("commit", b) = 1
           /\ \A i \in Matching(TickRecords, "commit", b) :
                TickRecords[i].commit_hash = tick.head[b]
           /\ Appended("branch_creation", b) = 0

\* C18 (amended): a completed iteration appended no record for a branch that
\* was listed before and is missing from its listing; and for a known branch
\* that was deleted and recreated since the listing before, it handed no
\* branch_creation event to log_event, and one commit event, with the hash
\* read, iff its head query returned a hash other than the stored one; the
\* file holds that record unless the write failed.
C18_RecreationIsCommitWhenRead ==
  Completed =>
    /\ \A b \in tick.known0 \ tick.listing : RecordsOf(b) = {}
    /\ \A b \in Recreated :
         /\ Handed("branch_creation", b) = 0
         /\ Appended("branch_creation", b) = 0
         /\ Handed("commit", b) = IF /\ tick.got[b] # None
                                     /\ tick.stored0[b] # None
                                     /\ tick.got[b] # tick.stored0[b]
                                  THEN 1 ELSE 0
         /\ Appended("commit", b) <= Handed("commit", b)
         /\ \A i \in Matching(TickEvents, "commit", b) :
              TickEvents[i].commit_hash = tick.got[b]

\* C18 witness: a completed iteration that appended one commit record, with
\* the hash read, and no branch_creation record for a known branch deleted
\* and recreated with another head since the listing before.
C18_Witness ==
  /\ Completed
  /\ \E b \in Recreated :
       /\ tick.stored0[b] # None
       /\ tick.got[b] \notin {None, tick.stored0[b]}
       /\ Appended("commit", b) = 1
       /\ Appended("branch_creation", b) = 0

\* C19: no step of monitor_repo removes a key from branch_commits (the key
\* set only grows while the process lives), and in every state of an
\* iteration the entry of a branch that is not in the iteration's listing is
\* the one the iteration began with.
C19_StoreKeysOnlyGrow ==
  /\ [][pc' # "stopped" => Keys(branch_commits) \subseteq Keys(branch_commits')]_vars
  /\ [](InTick => \A b \in Branches \ tick.listing :
                     branch_commits[b] = tick.stored0[b])

\* C19 witness: a completed iteration whose listing lacks a branch that has
\* been deleted, its entry in branch_commits still there.
C19_Witness ==
  /\ Completed
  /\ \E b \in Branches \ tick.listing :
       /\ repo[b] = None
       /\ tick.stored0[b] # None
       /\ branch_commits[b] = tick.stored0[b]

\* positions i < j of two events of the given type for the branch with no
\* event of that type for the branch between them
Consecutive(events, type, b, i, j) ==
  /\ i \in Matching(events, type, b) /\ j \in Matching(events, type, b)
  /\ i < j
  /\ \A k \in Matching(events, type, b) : ~(i < k /\ k < j)

\* C20 (as claimed): in the log, two commit records for a branch with no
\* other commit record for that branch between them never carry the same
\* commit_hash.
C20_NoRepeatedCommitHash ==
  LET records == Records
  IN \A b \in Branches : \A i, j \in DOMAIN records :
       Consecutive(records, "commit", b, i, j) =>
         records[i].commit_hash # records[j].commit_hash

\* C20 (amended): among the events handed to log_event, two commit events for
\* a branch with no other commit event and no branch_creation event for that
\* branch between them never carry the same commit_hash.
C20_NoRepeatWithoutCreation ==
  \A b \in Branches : \A i, j \in DOMAIN emitted :
    (/\ Consecutive(emitted, "commit", b, i, j)
     /\ \A k \in Matching(emitted, "branch_creation", b) : ~(i < k /\ k < j)) =>
      emitted[i].commit_hash # emitted[j].commit_hash

\* C20 witness: two commit records for a branch carry the same hash, no
\* commit record between them, and a branch_creation record is between them.
C20_Witness ==
  \E b \in Branches : \E i, j \in DOMAIN Records :
    /\ Consecutive(Records, "commit", b, i, j)
    /\ Records[i].commit_hash = Records[j].commit_hash
    /\ \E k \in Matching(Records, "branch_creation", b) : i < k /\ k < j
====
